---- MODULE Spec2Model ----
(***************************************************************************)
(* A model of the particle-life simulation of src/src/main.rs: the four    *)
(* systems of the frame (position_to_translation, the piped FixedUpdate    *)
(* chain get_particles -> compute_acceleration -> apply_acceleration, and  *)
(* wrap_particles) over a small population, with the f32 arithmetic of the *)
(* source modelled bit for bit (24-bit significand, round to nearest, ties *)
(* to even, NaN).                                                          *)
(***************************************************************************)
EXTENDS Integers, Sequences, FiniteSets, TLC

(***************************************************************************)
(* f32.  A finite value is m * 2^e with m = 0 (and e = 0) or               *)
(* 2^23 <= |m| < 2^24; NaN is a value of its own.  The exponent is not     *)
(* limited: the values of the model stay far inside the normal range of    *)
(* f32 (2^-126 .. 2^127), so nothing overflows to an infinity or becomes   *)
(* subnormal, and the model has no infinities.  The sign of a zero is not  *)
(* kept: the source never divides by a negative zero nor looks at the sign *)
(* of a zero.                                                              *)
(***************************************************************************)
F32(m, e) == [nan |-> FALSE, m |-> m, e |-> e]

NaN == [nan |-> TRUE, m |-> 0, e |-> 0]

Zero == F32(0, 0)

Two(n) == 2 ^ n

AbsInt(n) == IF n < 0 THEN 0 - n ELSE n

SignInt(n) == IF n < 0 THEN 0 - 1 ELSE 1

RECURSIVE BitLen(_)
BitLen(n) == IF n = 0 THEN 0 ELSE 1 + BitLen(n \div 2)

(* The f32 nearest to m * 2^e (ties to the even significand), |m| < 2^31. *)
RoundF32(m, e) ==
    IF m = 0 THEN Zero
    ELSE LET a == AbsInt(m)
             s == SignInt(m)
             len == BitLen(a)
         IN  IF len <= 24
             THEN F32(s * a * Two(24 - len), e - (24 - len))
             ELSE LET k == len - 24
                      q == a \div Two(k)
                      r == a % Two(k)
                      half == Two(k - 1)
                      q1 == IF r > half \/ (r = half /\ q % 2 = 1)
                            THEN q + 1 ELSE q
                  IN  IF q1 = Two(24)
                      THEN F32(s * Two(23), e + k + 1)
                      ELSE F32(s * q1, e + k)

(* An integer literal as f32 (exact below 2^24). *)
FromInt(n) == RoundF32(n, 0)

IsNaN(a) == a.nan

IsZero(a) == ~a.nan /\ a.m = 0

NegF(a) == IF a.nan THEN NaN ELSE F32(0 - a.m, a.e)

AbsF(a) == IF a.nan THEN NaN ELSE F32(AbsInt(a.m), a.e)

(* a < b of f32: false when either is NaN. *)
LtF(a, b) ==
    /\ ~a.nan
    /\ ~b.nan
    /\ IF a.m = 0 \/ b.m = 0 \/ SignInt(a.m) # SignInt(b.m)
       THEN (IF a.m = 0 THEN b.m > 0
             ELSE IF b.m = 0 THEN a.m < 0
             ELSE a.m < 0)
       ELSE IF a.m > 0
            THEN a.e < b.e \/ (a.e = b.e /\ a.m < b.m)
            ELSE a.e > b.e \/ (a.e = b.e /\ a.m < b.m)

(* a == b of f32: false when either is NaN. *)
EqF(a, b) == ~a.nan /\ ~b.nan /\ a = b

LeF(a, b) == LtF(a, b) \/ EqF(a, b)

(* a + b, correctly rounded.  The operand of the larger exponent keeps 5   *)
(* guard bits; what the smaller one loses below them is a sticky bit.      *)
AddF(a, b) ==
    IF a.nan \/ b.nan THEN NaN
    ELSE IF a.m = 0 THEN b
    ELSE IF b.m = 0 THEN a
    ELSE LET hi == IF a.e >= b.e THEN a ELSE b
             lo == IF a.e >= b.e THEN b ELSE a
             d == hi.e - lo.e
         IN  IF d <= 5
             THEN RoundF32(hi.m * Two(d) + lo.m, lo.e)
             ELSE LET big == AbsInt(hi.m) * Two(5)
                      sh == d - 5
                      lq == IF sh >= 24 THEN 0 ELSE AbsInt(lo.m) \div Two(sh)
                      sticky == IF sh >= 24 THEN TRUE
                                ELSE AbsInt(lo.m) % Two(sh) # 0
                      same == SignInt(hi.m) = SignInt(lo.m)
                      mag == IF same THEN big + lq
                             ELSE IF sticky THEN big - lq - 1 ELSE big - lq
                  IN  RoundF32(SignInt(hi.m) * (2 * mag + (IF sticky THEN 1 ELSE 0)),
                               hi.e - 6)

SubF(a, b) == AddF(a, NegF(b))

(* a * b, correctly rounded: the 48-bit product of the significands from   *)
(* 12-bit halves, its low bits folded into a sticky bit.                   *)
MulF(a, b) ==
    IF a.nan \/ b.nan THEN NaN
    ELSE IF a.m = 0 \/ b.m = 0 THEN Zero
    ELSE LET x == AbsInt(a.m)
             y == AbsInt(b.m)
             x1 == x \div 4096
             x0 == x % 4096
             y1 == y \div 4096
             y0 == y % 4096
             ll == x0 * y0
             mid == x1 * y0 + x0 * y1 + (ll \div 4096)
             hi == x1 * y1 + (mid \div 4096)
             lo == (mid % 4096) * 4096 + (ll % 4096)
             top == hi * 64 + (lo \div Two(18))
             sticky == IF lo % Two(18) # 0 THEN 1 ELSE 0
         IN  RoundF32(SignInt(a.m) * SignInt(b.m) * (2 * top + sticky),
                      a.e + b.e + 17)

(* a / b, correctly rounded: 28 quotient bits by long division, the        *)
(* remainder a sticky bit.  0/0 is NaN.  x/0 for x # 0 (an infinity in     *)
(* f32) does not occur: the only divisor that can be zero is a distance,   *)
(* which is zero only when the dividend vector is zero.                    *)
DivF(a, b) ==
    IF a.nan \/ b.nan THEN NaN
    ELSE IF b.m = 0 THEN NaN
    ELSE IF a.m = 0 THEN Zero
    ELSE LET x == AbsInt(a.m)
             y == AbsInt(b.m)
             q0 == x \div y
             r0 == x % y
             q1 == (r0 * 128) \div y
             r1 == (r0 * 128) % y
             q2 == (r1 * 128) \div y
             r2 == (r1 * 128) % y
             q3 == (r2 * 128) \div y
             r3 == (r2 * 128) % y
             q4 == (r3 * 128) \div y
             r4 == (r3 * 128) % y
             q == (((q0 * 128 + q1) * 128 + q2) * 128 + q3) * 128 + q4
             sticky == IF r4 # 0 THEN 1 ELSE 0
         IN  RoundF32(SignInt(a.m) * SignInt(b.m) * (2 * q + sticky),
                      a.e - b.e - 29)

(* The square root digit by digit: after step i, q is the integer square   *)
(* root of the first i bit pairs of the radicand and r the remainder.      *)
RECURSIVE SqrtDigits(_, _, _, _)
SqrtDigits(n, i, q, r) ==
    IF i = 27 THEN <<q, r>>
    ELSE LET pair == IF i < 13 THEN (n \div Two(2 * (12 - i))) % 4 ELSE 0
             rr == 4 * r + pair
             t == 4 * q + 1
         IN  IF rr >= t THEN SqrtDigits(n, i + 1, 2 * q + 1, rr - t)
             ELSE SqrtDigits(n, i + 1, 2 * q, rr)

(* sqrt(a), correctly rounded; NaN for a negative a. *)
SqrtF(a) ==
    IF a.nan \/ a.m < 0 THEN NaN
    ELSE IF a.m = 0 THEN Zero
    ELSE LET odd == a.e % 2 # 0
             n == IF odd THEN 2 * a.m ELSE a.m
             e2 == IF odd THEN a.e - 1 ELSE a.e
             qr == SqrtDigits(n, 0, 0, 0)
             sticky == IF qr[2] # 0 THEN 1 ELSE 0
         IN  RoundF32(2 * qr[1] + sticky, (e2 \div 2) - 15)

(* (x * 2^d) mod y for integers 0 <= x < y. *)
RECURSIVE ShiftMod(_, _, _)
ShiftMod(x, d, y) == IF d = 0 THEN x ELSE ShiftMod((2 * x) % y, d - 1, y)

(* a % b of f32 (fmod): exact, with the sign of a. *)
RemF(a, b) ==
    IF a.nan \/ b.nan \/ b.m = 0 THEN NaN
    ELSE IF a.m = 0 THEN Zero
    ELSE IF a.e < b.e THEN a
    ELSE LET y == AbsInt(b.m)
             r == ShiftMod(AbsInt(a.m) % y, a.e - b.e, y)
         IN  RoundF32(SignInt(a.m) * r, b.e)

(* f32::rem_euclid: r = self % rhs; if r < 0.0 { r + rhs.abs() } else { r } *)
RemEuclid(a, b) ==
    LET r == RemF(a, b)
    IN  IF LtF(r, Zero) THEN AddF(r, AbsF(b)) ELSE r

(***************************************************************************)
(* The constants of the program.                                           *)
(***************************************************************************)
One == FromInt(1)

TwoF == FromInt(2)

Half == RoundF32(1, 0 - 1)

WINDOW_WIDTH == FromInt(800)

WINDOW_HEIGHT == FromInt(800)

BETA_REPULSION_DISTANCE == Half

MAXIMUM_RADIUS_OF_EFFECT == FromInt(20)

(* The literal 0.4 is the f32 nearest to 4/10. *)
FRICTION_HALF_TIME == DivF(FromInt(4), FromInt(10))

NUMBER_OF_TYPES == 5

(* Time::<Fixed>::from_hz(10.0): a timestep of 1/10 s. *)
FIXED_HZ == 10

(* time.delta_seconds(): the timestep as f32, the f32 nearest to 1/10. *)
delta_seconds == DivF(One, FromInt(FIXED_HZ))

(* The significand of 0.5f32.powf(0.25) = 0x3f5744fd = 14107901 * 2^-24,   *)
(* the f32 nearest to 2^(-1/4) = 0.840896415...                            *)
POWF_HALF_QUARTER == 14107901

(* f32::powf at the one pair of arguments the program passes (the case     *)
(* expression has no other arm: any other call is outside the model).      *)
Powf(base, exponent) ==
    CASE base = Half /\ exponent = RoundF32(1, 0 - 2) ->
             F32(POWF_HALF_QUARTER, 0 - 24)

(***************************************************************************)
(* Vec2 (glam, scalar): componentwise f32 arithmetic.                      *)
(***************************************************************************)
Vec2(x, y) == [x |-> x, y |-> y]

VecZero == Vec2(Zero, Zero)

VecAdd(a, b) == Vec2(AddF(a.x, b.x), AddF(a.y, b.y))

VecSub(a, b) == Vec2(SubF(a.x, b.x), SubF(a.y, b.y))

VecMul(a, s) == Vec2(MulF(a.x, s), MulF(a.y, s))

VecDiv(a, s) == Vec2(DivF(a.x, s), DivF(a.y, s))

(* Vec2::length: dot(self, self).sqrt() *)
VecLength(a) == SqrtF(AddF(MulF(a.x, a.x), MulF(a.y, a.y)))

VecIsNaN(a) == IsNaN(a.x) \/ IsNaN(a.y)

(***************************************************************************)
(* Bounds of the model.                                                    *)
(***************************************************************************)
(* The population (NUMBER_OF_PARTICLES in the source). *)
NumParticles == 2

(* Simulation ticks of a run. *)
MaxTicks == 2

Entity == 1 .. NumParticles

RECURSIVE SeqsOver(_, _)
SeqsOver(S, n) ==
    IF n = 0 THEN {<<>>}
    ELSE LET shorter == SeqsOver(S, n - 1)
         IN  shorter \cup {Append(s, x) : s \in {t \in shorter : Len(t) = n - 1}, x \in S}

Range(s) == {s[i] : i \in 1 .. Len(s)}

(* The orders in which a query may iterate over the particles. *)
Orders == {s \in [1 .. NumParticles -> Entity] : Range(s) = Entity}

VARIABLES
    position,                  \* Position of each particle
    velocity,                  \* Velocity of each particle
    ty,                        \* Type of each particle
    translation,               \* Transform.translation of each particle (x, y)
    matrix,                    \* AttractionFactors.matrix
    tree,                      \* the entries of the PointKDTree
    list_of_nearest_entities,  \* what get_particles pipes to compute_acceleration
    accelerations,             \* what compute_acceleration pipes to apply_acceleration
    pc,                        \* the system that runs next
    ticks,                     \* FixedUpdate runs so far
    arg,                       \* the inputs of a run over a single function
    ret                        \* its result

vars == <<position, velocity, ty, translation, matrix, tree,
          list_of_nearest_entities, accelerations, pc, ticks, arg, ret>>

(***************************************************************************)
(* AttractionFactors                                                       *)
(***************************************************************************)
get_factor(type1, type2) == matrix[type1 * NUMBER_OF_TYPES + type2 + 1]

(***************************************************************************)
(* force                                                                   *)
(***************************************************************************)
(* force with the attraction factor applied in the repulsion core too. *)
force_core_scaled(attraction_factor, distance) ==
    IF LtF(distance, BETA_REPULSION_DISTANCE)
    THEN MulF(attraction_factor, SubF(DivF(distance, BETA_REPULSION_DISTANCE), One))
    ELSE IF LeF(BETA_REPULSION_DISTANCE, distance) /\ LtF(distance, One)
    THEN LET numerator ==
                 AbsF(SubF(SubF(MulF(TwoF, distance), One), BETA_REPULSION_DISTANCE))
             denominator == SubF(One, BETA_REPULSION_DISTANCE)
         IN  MulF(attraction_factor, SubF(One, DivF(numerator, denominator)))
    ELSE Zero

(* force with the shell centred without the repulsion distance. *)
force_shell_shifted(attraction_factor, distance) ==
    IF LtF(distance, BETA_REPULSION_DISTANCE)
    THEN SubF(DivF(distance, BETA_REPULSION_DISTANCE), One)
    ELSE IF LeF(BETA_REPULSION_DISTANCE, distance) /\ LtF(distance, One)
    THEN LET numerator == AbsF(SubF(MulF(TwoF, distance), One))
             denominator == SubF(One, BETA_REPULSION_DISTANCE)
         IN  MulF(attraction_factor, SubF(One, DivF(numerator, denominator)))
    ELSE Zero

(* force with a shell that has no outer end. *)
force_no_cutoff(attraction_factor, distance) ==
    IF LtF(distance, BETA_REPULSION_DISTANCE)
    THEN SubF(DivF(distance, BETA_REPULSION_DISTANCE), One)
    ELSE IF LeF(BETA_REPULSION_DISTANCE, distance)
    THEN LET numerator ==
                 AbsF(SubF(SubF(MulF(TwoF, distance), One), BETA_REPULSION_DISTANCE))
             denominator == SubF(One, BETA_REPULSION_DISTANCE)
         IN  MulF(attraction_factor, SubF(One, DivF(numerator, denominator)))
    ELSE Zero

force(attraction_factor, distance) ==
    IF LtF(distance, BETA_REPULSION_DISTANCE)
    THEN SubF(DivF(distance, BETA_REPULSION_DISTANCE), One)
    ELSE IF LeF(BETA_REPULSION_DISTANCE, distance) /\ LtF(distance, One)
    THEN LET numerator ==
                 AbsF(SubF(SubF(MulF(TwoF, distance), One), BETA_REPULSION_DISTANCE))
             denominator == SubF(One, BETA_REPULSION_DISTANCE)
         IN  MulF(attraction_factor, SubF(One, DivF(numerator, denominator)))
    ELSE Zero

(***************************************************************************)
(* position_to_translation (PreUpdate)                                     *)
(***************************************************************************)
position_to_translation ==
    /\ pc = "PreUpdate"
    /\ translation' = position
    /\ pc' = "FixedUpdate"
    /\ UNCHANGED <<position, velocity, ty, matrix, tree,
                   list_of_nearest_entities, accelerations, ticks, arg, ret>>

(***************************************************************************)
(* The spatial index (bevy_spatial AutomaticUpdate<Point>, KDTree2): on a  *)
(* timer of its own it is rebuilt from the Transform of every Point; it    *)
(* answers within_distance from what it held at its last rebuild.          *)
(***************************************************************************)
update_tree ==
    /\ pc \in {"PreUpdate", "FixedUpdate"}
    /\ tree' = [i \in 1 .. NumParticles |-> [point |-> translation[i], entity |-> i]]
    /\ UNCHANGED <<position, velocity, ty, translation, matrix,
                   list_of_nearest_entities, accelerations, pc, ticks, arg, ret>>

(* tree.within_distance(point, distance): the entries within the distance. *)
within_distance(point, distance) ==
    LET Near(entry) == LeF(VecLength(VecSub(entry.point, point)), distance)
    IN  SelectSeq(tree, Near)

(***************************************************************************)
(* get_particles (FixedUpdate, first of the piped chain)                   *)
(***************************************************************************)
(* nearest_entities without the test that skips the particle itself. *)
nearest_entities_unfiltered(this_entity, found) ==
    <<this_entity>> \o [i \in 1 .. Len(found) |-> found[i].entity]

(* The body of the outer loop: the list of one particle. *)
nearest_entities(this_entity, found) ==
    LET Other(entry) == entry.entity # this_entity
        others == SelectSeq(found, Other)
    IN  <<this_entity>> \o [i \in 1 .. Len(others) |-> others[i].entity]

get_particles ==
    /\ pc = "FixedUpdate"
    /\ \E order \in Orders :
           list_of_nearest_entities' =
               [i \in 1 .. NumParticles |->
                   nearest_entities(order[i],
                       within_distance(translation[order[i]], MAXIMUM_RADIUS_OF_EFFECT))]
    /\ pc' = "compute_acceleration"
    /\ UNCHANGED <<position, velocity, ty, translation, matrix, tree,
                   accelerations, ticks, arg, ret>>

(***************************************************************************)
(* compute_acceleration                                                    *)
(***************************************************************************)
(* accumulate with the vector taken from the other particle to this one. *)
accumulate_reversed(acceleration, this_type, this_position, other_type, other_position) ==
    LET vector == VecSub(this_position, other_position)
        distance == VecLength(vector)
        f == force(get_factor(this_type, other_type),
                   DivF(distance, MAXIMUM_RADIUS_OF_EFFECT))
    IN  VecAdd(acceleration, VecMul(VecDiv(vector, distance), f))

(* The body of the inner loop: acceleration += (vector / distance) * force *)
accumulate(acceleration, this_type, this_position, other_type, other_position) ==
    LET vector == VecSub(other_position, this_position)
        distance == VecLength(vector)
        f == force(get_factor(this_type, other_type),
                   DivF(distance, MAXIMUM_RADIUS_OF_EFFECT))
    IN  VecAdd(acceleration, VecMul(VecDiv(vector, distance), f))

RECURSIVE accumulate_all(_, _, _, _)
accumulate_all(acceleration, this_entity, others, pos) ==
    IF others = <<>> THEN acceleration
    ELSE accumulate_all(
             accumulate(acceleration, ty[this_entity], pos[this_entity],
                        ty[Head(others)], pos[Head(others)]),
             this_entity, Tail(others), pos)

(* The body of the outer loop: the acceleration of entities[1]. *)
net_acceleration(entities, pos) ==
    VecMul(accumulate_all(VecZero, entities[1], Tail(entities), pos),
           MAXIMUM_RADIUS_OF_EFFECT)

(* The loop with each particle moved as soon as its acceleration is known,  *)
(* so that later particles read the moved position.                        *)
RECURSIVE compute_accelerations_in_place(_, _)
compute_accelerations_in_place(lists, pos) ==
    IF lists = <<>> THEN <<>>
    ELSE LET this_entity == Head(lists)[1]
             acceleration == net_acceleration(Head(lists), pos)
             moved == VecAdd(pos[this_entity],
                             VecMul(VecAdd(VecMul(velocity[this_entity],
                                                  Powf(Half, DivF(delta_seconds, FRICTION_HALF_TIME))),
                                           VecMul(acceleration, delta_seconds)),
                                    delta_seconds))
         IN  <<<<this_entity, acceleration>>>>
             \o compute_accelerations_in_place(Tail(lists),
                                               [pos EXCEPT ![this_entity] = moved])

compute_accelerations(lists, pos) ==
    [i \in 1 .. Len(lists) |-> <<lists[i][1], net_acceleration(lists[i], pos)>>]

compute_acceleration ==
    /\ pc = "compute_acceleration"
    /\ accelerations' = compute_accelerations(list_of_nearest_entities, position)
    /\ pc' = "apply_acceleration"
    /\ UNCHANGED <<position, velocity, ty, translation, matrix, tree,
                   list_of_nearest_entities, ticks, arg, ret>>

(***************************************************************************)
(* apply_acceleration                                                      *)
(***************************************************************************)
friction == Powf(Half, DivF(delta_seconds, FRICTION_HALF_TIME))

(* The explicit step: the position advances by the velocity before the     *)
(* update.                                                                 *)
integrate_explicit(old_position, old_velocity, acceleration) ==
    [position |-> VecAdd(old_position, VecMul(old_velocity, delta_seconds)),
     velocity |-> VecAdd(VecMul(old_velocity, Powf(Half, DivF(delta_seconds, FRICTION_HALF_TIME))),
                         VecMul(acceleration, delta_seconds))]

(* The body of the loop, for one particle. *)
integrate(old_position, old_velocity, acceleration) ==
    LET v == VecAdd(VecMul(old_velocity, friction), VecMul(acceleration, delta_seconds))
    IN  [position |-> VecAdd(old_position, VecMul(v, delta_seconds)), velocity |-> v]

RECURSIVE apply_all(_, _)
apply_all(accs, pv) ==
    IF accs = <<>> THEN pv
    ELSE LET this_entity == Head(accs)[1]
             next == integrate(pv.position[this_entity], pv.velocity[this_entity],
                               Head(accs)[2])
         IN  apply_all(Tail(accs),
                 [position |-> [pv.position EXCEPT ![this_entity] = next.position],
                  velocity |-> [pv.velocity EXCEPT ![this_entity] = next.velocity]])

apply_acceleration ==
    /\ pc = "apply_acceleration"
    /\ LET pv == apply_all(accelerations, [position |-> position, velocity |-> velocity])
       IN  /\ position' = pv.position
           /\ velocity' = pv.velocity
    /\ list_of_nearest_entities' = <<>>
    /\ accelerations' = <<>>
    /\ ticks' = ticks + 1
    /\ pc' = "FixedUpdate"
    /\ UNCHANGED <<ty, translation, matrix, tree, arg, ret>>

(***************************************************************************)
(* wrap_particles (PostUpdate)                                             *)
(***************************************************************************)
wrap(value, extent) ==
    SubF(RemEuclid(AddF(value, DivF(extent, TwoF)), extent), DivF(extent, TwoF))

wrap_position(p) == Vec2(wrap(p.x, WINDOW_WIDTH), wrap(p.y, WINDOW_HEIGHT))

wrap_particles ==
    /\ pc = "FixedUpdate"
    /\ position' = [e \in Entity |-> wrap_position(position[e])]
    /\ pc' = "PreUpdate"
    /\ UNCHANGED <<velocity, ty, translation, matrix, tree,
                   list_of_nearest_entities, accelerations, ticks, arg, ret>>

(***************************************************************************)
(* setup and AttractionFactors::default: the state after Startup.  The     *)
(* draws of the random generator are inputs: rng.gen::<f32>() is k * 2^-24 *)
(* for a 24-bit k.                                                         *)
(***************************************************************************)
Gen(k) == RoundF32(k, 0 - 24)

(* (x - 0.5) * WINDOW_WIDTH of a draw x: 382.875, 397.875, 399.875. *)
CoordinateDraws == {16418199, 16732772, 16774715}

CentreDraw == 8388608

TypeDraws == {0, 4}

spawn_coordinate(k, extent) == MulF(SubF(Gen(k), Half), extent)

(* thread_rng().gen::<f32>() * 2.0 - 1.0 of a draw x. *)
factor_of(k) == SubF(MulF(Gen(k), TwoF), One)

(* Two matrices: every factor 0.5; factors -1, -0.25, 0.5 in turn. *)
MatrixHalf == [i \in 1 .. NUMBER_OF_TYPES * NUMBER_OF_TYPES |-> factor_of(12582912)]

MatrixMixed ==
    [i \in 1 .. NUMBER_OF_TYPES * NUMBER_OF_TYPES |-> factor_of(((i - 1) % 3) * 6291456)]

MatrixDraws == {MatrixHalf, MatrixMixed}

Init ==
    /\ \E along \in {"x", "y"} :
       \E draws \in [Entity -> CoordinateDraws] :
           position = [e \in Entity |->
               IF along = "x"
               THEN Vec2(spawn_coordinate(draws[e], WINDOW_WIDTH),
                         spawn_coordinate(CentreDraw, WINDOW_HEIGHT))
               ELSE Vec2(spawn_coordinate(CentreDraw, WINDOW_WIDTH),
                         spawn_coordinate(draws[e], WINDOW_HEIGHT))]
    /\ velocity = [e \in Entity |-> VecZero]
    /\ ty \in [Entity -> TypeDraws]
    /\ translation = position
    /\ matrix \in MatrixDraws
    /\ tree = <<>>
    /\ list_of_nearest_entities = <<>>
    /\ accelerations = <<>>
    /\ pc = "PreUpdate"
    /\ ticks = 0
    /\ arg = <<>>
    /\ ret = <<>>

(* A frame: PreUpdate, the fixed main loop (no, one or several runs of     *)
(* FixedUpdate, as many as whole timesteps have accumulated), PostUpdate.  *)
Next ==
    \/ position_to_translation
    \/ update_tree
    \/ (ticks < MaxTicks /\ get_particles)
    \/ compute_acceleration
    \/ apply_acceleration
    \/ wrap_particles

Spec == Init /\ [][Next]_vars

(***************************************************************************)
(* Half-open domain of the positions.                                      *)
(***************************************************************************)
InDomain(p) ==
    /\ LeF(NegF(DivF(WINDOW_WIDTH, TwoF)), p.x)
    /\ LtF(p.x, DivF(WINDOW_WIDTH, TwoF))
    /\ LeF(NegF(DivF(WINDOW_HEIGHT, TwoF)), p.y)
    /\ LtF(p.y, DivF(WINDOW_HEIGHT, TwoF))

(***************************************************************************)
(* C2.  In compute_acceleration a neighbour at exactly the position of the *)
(* particle (distance 0) is skipped: the acceleration emitted for the      *)
(* particle is the sum over the other neighbours, and no acceleration,     *)
(* velocity or position becomes NaN.                                       *)
(***************************************************************************)
without_coincident(entities) ==
    LET Apart(other) == position[other] # position[entities[1]]
    IN  <<entities[1]>> \o SelectSeq(Tail(entities), Apart)

C2_CoincidentPairSkipped ==
    /\ pc = "apply_acceleration" =>
           \A i \in 1 .. Len(accelerations) :
               /\ ~VecIsNaN(accelerations[i][2])
               /\ accelerations[i][2] =
                      net_acceleration(without_coincident(list_of_nearest_entities[i]),
                                       position)
    /\ \A e \in Entity : ~VecIsNaN(velocity[e]) /\ ~VecIsNaN(position[e])

(***************************************************************************)
(* C3.  Whatever the number of FixedUpdate runs of a frame, the positions  *)
(* a tick reads lie inside the domain: the translations its neighbour      *)
(* query has read and the positions its force computation reads (the       *)
(* state between get_particles and compute_acceleration).  Stated for the  *)
(* positions that are numbers: a NaN is C2's.                              *)
(***************************************************************************)
C3_TickReadsWrappedPositions ==
    pc = "compute_acceleration" =>
        \A e \in Entity :
            /\ VecIsNaN(translation[e]) \/ InDomain(translation[e])
            /\ VecIsNaN(position[e]) \/ InDomain(position[e])

(***************************************************************************)
(* wrap_particles on its own: a PostUpdate over positions that integration *)
(* has left anywhere, in the domain or widths outside it.                  *)
(***************************************************************************)
(* -400 - 2^-15 (the f32 next below -400), -400, 0, 399.875, 400,          *)
(* 2000.25, -2000.25, -10^9.                                               *)
WrapSamples ==
    {RoundF32(0 - 13107201, 0 - 15), FromInt(0 - 400), Zero, RoundF32(3199, 0 - 3),
     FromInt(400), RoundF32(8001, 0 - 2), RoundF32(0 - 8001, 0 - 2),
     FromInt(0 - 1000000000)}

InitWrap ==
    /\ position \in [Entity -> {Vec2(x, y) : x \in WrapSamples, y \in WrapSamples}]
    /\ velocity = [e \in Entity |-> VecZero]
    /\ ty = [e \in Entity |-> 0]
    /\ translation = position
    /\ matrix = MatrixHalf
    /\ tree = <<>>
    /\ list_of_nearest_entities = <<>>
    /\ accelerations = <<>>
    /\ pc = "FixedUpdate"
    /\ ticks = 0
    /\ arg = position
    /\ ret = <<>>

SpecWrap == InitWrap /\ [][wrap_particles]_vars

(***************************************************************************)
(* C1.  After wrap_particles every position satisfies                      *)
(* -WINDOW_WIDTH/2 <= x < WINDOW_WIDTH/2 and                               *)
(* -WINDOW_HEIGHT/2 <= y < WINDOW_HEIGHT/2, whatever it was before.        *)
(***************************************************************************)
C1_WrappedInsideDomain ==
    pc = "PreUpdate" => \A e \in Entity : InDomain(position[e])

(***************************************************************************)
(* force, and the body of the inner loop of compute_acceleration, on their *)
(* own: one call on sampled arguments.                                     *)
(***************************************************************************)
(* Normalized distances go up to MaxSixteenths / 16. *)
MaxSixteenths == 20

(* -1, -0.25, 0, 0.5 and the largest factor below 1. *)
FactorSamples == {factor_of(k) : k \in {0, 6291456, 8388608, 12582912, 16777215}}

(* The multiples of 1/16 and their neighbours up to 2^-23 away. *)
DistanceSamples ==
    {d \in {AddF(RoundF32(k, 0 - 4), RoundF32(j, 0 - 24)) :
                k \in 0 .. MaxSixteenths, j \in (0 - 2) .. 2} : ~LtF(d, Zero)}

(* Where the other particle is, seen from this one: along the axes at 2,   *)
(* 15, 19.5, 20, 25 and 797.25, and obliquely at distances 5, 20 and 25.   *)
OffsetSamples ==
    {Vec2(MulF(FromInt(sx), s), MulF(FromInt(sy), s)) :
         sx \in {0 - 1, 0, 1}, sy \in {0 - 1, 0, 1},
         s \in {FromInt(2), FromInt(15), RoundF32(39, 0 - 1), FromInt(20),
                FromInt(25), RoundF32(3189, 0 - 2)}}
    \cup {Vec2(FromInt(3), FromInt(4)), Vec2(FromInt(0 - 12), FromInt(16)),
          Vec2(FromInt(15), FromInt(0 - 20))}

AccelerationSamples == {VecZero, Vec2(RoundF32(3, 0 - 1), FromInt(0 - 2))}

ForceArgs ==
    [call : {"force"}, attraction_factor : FactorSamples, distance : DistanceSamples]

AccumulateArgs ==
    [call : {"accumulate"}, acceleration : AccelerationSamples,
     this_type : TypeDraws, other_type : TypeDraws,
     this_position : {Vec2(RoundF32(3199, 0 - 3), FromInt(0 - 7))},
     offset : OffsetSamples]

InitForce ==
    /\ position = [e \in Entity |-> VecZero]
    /\ velocity = [e \in Entity |-> VecZero]
    /\ ty = [e \in Entity |-> 0]
    /\ translation = position
    /\ matrix = MatrixMixed
    /\ tree = <<>>
    /\ list_of_nearest_entities = <<>>
    /\ accelerations = <<>>
    /\ arg \in ForceArgs \cup AccumulateArgs
    /\ pc = arg.call
    /\ ticks = 0
    /\ ret = <<>>

call_force ==
    /\ pc = "force"
    /\ ret' = force(arg.attraction_factor, arg.distance)
    /\ pc' = "done"
    /\ UNCHANGED <<position, velocity, ty, translation, matrix, tree,
                   list_of_nearest_entities, accelerations, ticks, arg>>

call_accumulate ==
    /\ pc = "accumulate"
    /\ ret' = accumulate(arg.acceleration, arg.this_type, arg.this_position,
                         arg.other_type, VecAdd(arg.this_position, arg.offset))
    /\ pc' = "done"
    /\ UNCHANGED <<position, velocity, ty, translation, matrix, tree,
                   list_of_nearest_entities, accelerations, ticks, arg>>

NextForce == call_force \/ call_accumulate

SpecForce == InitForce /\ [][NextForce]_vars

ForceReturned == pc = "done" /\ arg.call = "force"

(***************************************************************************)
(* C5.  For every attraction factor a and every normalized distance d with *)
(* 0 <= d < BETA_REPULSION_DISTANCE, force(a, d) is                        *)
(* d / BETA_REPULSION_DISTANCE - 1: negative, the same for every a, and    *)
(* exactly -1 at d = 0.                                                    *)
(***************************************************************************)
C5_RepulsionCore ==
    (ForceReturned /\ LeF(Zero, arg.distance)
                   /\ LtF(arg.distance, BETA_REPULSION_DISTANCE)) =>
        /\ ret = SubF(DivF(arg.distance, BETA_REPULSION_DISTANCE), One)
        /\ LtF(ret, Zero)
        /\ \A a \in FactorSamples : force(a, arg.distance) = ret
        /\ arg.distance = Zero => ret = FromInt(0 - 1)

C5_Witness ==
    /\ ForceReturned
    /\ arg.distance = Zero
    /\ arg.attraction_factor = Half
    /\ ret = FromInt(0 - 1)

(***************************************************************************)
(* C6.  For every attraction factor a and every normalized distance d with *)
(* BETA <= d < 1, force(a, d) is a * (1 - |2d - 1 - BETA| / (1 - BETA)):   *)
(* a at d = (1 + BETA) / 2 = 0.75, and 0 at d = BETA, which is also what   *)
(* the expression of the repulsion core gives at d = BETA (just below BETA *)
(* the force is within 2^-23 of 0).                                        *)
(***************************************************************************)
C6_Shell ==
    /\ (ForceReturned /\ LeF(BETA_REPULSION_DISTANCE, arg.distance)
                      /\ LtF(arg.distance, One)) =>
           /\ ret = MulF(arg.attraction_factor,
                         SubF(One,
                              DivF(AbsF(SubF(SubF(MulF(TwoF, arg.distance), One),
                                             BETA_REPULSION_DISTANCE)),
                                   SubF(One, BETA_REPULSION_DISTANCE))))
           /\ arg.distance = DivF(AddF(One, BETA_REPULSION_DISTANCE), TwoF) =>
                  ret = arg.attraction_factor
           /\ arg.distance = BETA_REPULSION_DISTANCE =>
                  /\ ret = Zero
                  /\ SubF(DivF(arg.distance, BETA_REPULSION_DISTANCE), One) = ret
    /\ (ForceReturned
           /\ arg.distance = SubF(BETA_REPULSION_DISTANCE, RoundF32(1, 0 - 24))) =>
           LeF(AbsF(ret), RoundF32(1, 0 - 23))

C6_Witness ==
    /\ ForceReturned
    /\ arg.distance = RoundF32(3, 0 - 2)
    /\ arg.attraction_factor = Half
    /\ ret = Half

(***************************************************************************)
(* C7.  For every attraction factor a and every normalized distance        *)
(* d >= 1, force(a, d) is 0; and a neighbour at a distance of              *)
(* MAXIMUM_RADIUS_OF_EFFECT or more leaves the acceleration that the inner *)
(* loop of compute_acceleration accumulates as it was.                     *)
(***************************************************************************)
C7_NothingBeyondRadius ==
    /\ (ForceReturned /\ LeF(One, arg.distance)) => ret = Zero
    /\ (pc = "done" /\ arg.call = "accumulate"
           /\ LeF(MAXIMUM_RADIUS_OF_EFFECT,
                  VecLength(VecSub(VecAdd(arg.this_position, arg.offset),
                                   arg.this_position)))) =>
           ret = arg.acceleration

C7_Witness ==
    /\ pc = "done"
    /\ arg.call = "accumulate"
    /\ arg.offset = Vec2(FromInt(0 - 12), FromInt(16))
    /\ arg.acceleration # VecZero
    /\ ret = arg.acceleration

(***************************************************************************)
(* get_particles on its own: one run over an index that holds any entries, *)
(* stale ones and repeated ones included.                                  *)
(***************************************************************************)
MaxTreeEntries == 2

QueryPoints == {VecZero, Vec2(Zero, FromInt(25))}

InitQuery ==
    /\ position \in [Entity -> QueryPoints]
    /\ velocity = [e \in Entity |-> VecZero]
    /\ ty = [e \in Entity |-> 0]
    /\ translation = position
    /\ matrix = MatrixHalf
    /\ tree \in SeqsOver([point : QueryPoints, entity : Entity], MaxTreeEntries)
    /\ list_of_nearest_entities = <<>>
    /\ accelerations = <<>>
    /\ pc = "FixedUpdate"
    /\ ticks = 0
    /\ arg = <<>>
    /\ ret = <<>>

SpecQuery == InitQuery /\ [][get_particles]_vars

Returned(this_entity) ==
    within_distance(translation[this_entity], MAXIMUM_RADIUS_OF_EFFECT)

ReturnedEntities(this_entity) ==
    {Returned(this_entity)[k].entity : k \in 1 .. Len(Returned(this_entity))}

(***************************************************************************)
(* C4.  get_particles gives one list per particle; the first element of    *)
(* the list of P is P, P is nowhere in the rest of it, and the rest holds  *)
(* every other entity the index returned for P (and nothing else),         *)
(* whatever the index returned.                                            *)
(***************************************************************************)
C4_NeighbourLists ==
    pc = "compute_acceleration" =>
        /\ Len(list_of_nearest_entities) = NumParticles
        /\ \A e \in Entity :
               Cardinality({i \in 1 .. Len(list_of_nearest_entities) :
                                list_of_nearest_entities[i][1] = e}) = 1
        /\ \A i \in 1 .. Len(list_of_nearest_entities) :
               LET this_entity == list_of_nearest_entities[i][1]
                   rest == Tail(list_of_nearest_entities[i])
               IN  /\ this_entity \in Entity
                   /\ this_entity \notin Range(rest)
                   /\ Range(rest) = ReturnedEntities(this_entity) \ {this_entity}

C4_Witness ==
    /\ pc = "compute_acceleration"
    /\ \E p, q \in Entity :
           /\ p \in ReturnedEntities(p)
           /\ ReturnedEntities(p) # {p}
           /\ ReturnedEntities(q) = {}

(***************************************************************************)
(* One tick of two particles at rest that see each other: this_entity and  *)
(* other_entity a separation apart along a coordinate axis, each the only  *)
(* neighbour in the list of the other.                                     *)
(***************************************************************************)
(* 0.5, 2 and 9.75 are inside the repulsion core (2 is 0.1 of the radius); *)
(* 10, 12, 15 and 19.5 are in the shell (15 is 0.75 of the radius).        *)
SeparationSamples ==
    {Half, FromInt(2), RoundF32(39, 0 - 2), FromInt(10), FromInt(12),
     FromInt(15), RoundF32(39, 0 - 1)}

AxisDirections ==
    {Vec2(One, Zero), Vec2(FromInt(0 - 1), Zero), Vec2(Zero, One),
     Vec2(Zero, FromInt(0 - 1))}

InitPair ==
    /\ \E p \in Entity, q \in Entity, s \in SeparationSamples, u \in AxisDirections :
           /\ p < q
           /\ position = [e \in Entity |->
                  IF e = p THEN Vec2(FromInt(100), FromInt(0 - 50))
                  ELSE IF e = q
                       THEN VecAdd(Vec2(FromInt(100), FromInt(0 - 50)), VecMul(u, s))
                       ELSE Vec2(FromInt(0 - 300), FromInt(40 * e))]
           /\ list_of_nearest_entities = [e \in 1 .. NumParticles |->
                  IF e = p THEN <<p, q>> ELSE IF e = q THEN <<q, p>> ELSE <<e>>]
           /\ arg = [this_entity |-> p, other_entity |-> q, position |-> position]
    /\ velocity = [e \in Entity |-> VecZero]
    /\ ty \in [Entity -> TypeDraws]
    /\ translation = position
    /\ matrix \in MatrixDraws
    /\ tree = <<>>
    /\ accelerations = <<>>
    /\ pc = "compute_acceleration"
    /\ ticks = 0
    /\ ret = <<>>

NextPair == compute_acceleration \/ apply_acceleration

SpecPair == InitPair /\ [][NextPair]_vars

(* The unit vector from a to b, their normalized distance and the force of *)
(* b on a, from the positions before the tick.                             *)
PairVector(a, b) == VecSub(arg.position[b], arg.position[a])

PairUnit(a, b) == VecDiv(PairVector(a, b), VecLength(PairVector(a, b)))

PairDistance(a, b) == DivF(VecLength(PairVector(a, b)), MAXIMUM_RADIUS_OF_EFFECT)

PairForce(a, b) == force(get_factor(ty[a], ty[b]), PairDistance(a, b))

(* MAXIMUM_RADIUS_OF_EFFECT * |force| * dt *)
PairSpeed(a, b) ==
    MulF(MulF(MAXIMUM_RADIUS_OF_EFFECT, AbsF(PairForce(a, b))), delta_seconds)

RECURSIVE SortedSeq(_)
SortedSeq(S) ==
    IF S = {} THEN <<>>
    ELSE LET least == CHOOSE x \in S : \A y \in S : x <= y
         IN  <<least>> \o SortedSeq(S \ {least})

NeighbourLists(e) == {<<e>> \o SortedSeq(S) : S \in SUBSET (Entity \ {e})}

InitTick ==
    /\ \E draw \in [Entity -> CoordinateDraws] :
           position = [e \in Entity |->
                          Vec2(spawn_coordinate(draw[e], WINDOW_WIDTH), FromInt(3 * e))]
    /\ velocity = [e \in Entity |-> Vec2(FromInt(e), NegF(Half))]
    /\ ty = [e \in Entity |-> IF e % 2 = 1 THEN 0 ELSE 4]
    /\ translation = position
    /\ matrix = MatrixMixed
    /\ tree = <<>>
    /\ \E lists \in [Entity -> UNION {NeighbourLists(e) : e \in Entity}], order \in Orders :
           /\ \A e \in Entity : lists[e] \in NeighbourLists(e)
           /\ list_of_nearest_entities = [i \in 1 .. NumParticles |-> lists[order[i]]]
           /\ arg = [position |-> position, velocity |-> velocity, ty |-> ty,
                     lists |-> lists, order |-> order]
    /\ accelerations = <<>>
    /\ pc = "compute_acceleration"
    /\ ticks = 0
    /\ ret = <<>>

NextTick == compute_acceleration \/ apply_acceleration

SpecTick == InitTick /\ [][NextTick]_vars

(***************************************************************************)
(* C10.  Within a tick every acceleration is computed from the positions   *)
(* at the start of the tick, and no position or velocity changes before    *)
(* all of them are computed; the state after the tick is therefore the     *)
(* same for every order in which the particles are processed.              *)
(***************************************************************************)
C10_SynchronousTick ==
    /\ pc = "apply_acceleration" =>
           /\ position = arg.position
           /\ velocity = arg.velocity
           /\ ty = arg.ty
           /\ accelerations =
                  [i \in 1 .. NumParticles |->
                      <<arg.order[i],
                        net_acceleration(arg.lists[arg.order[i]], arg.position)>>]
    /\ (pc = "FixedUpdate" /\ ticks = 1) =>
           \A e \in Entity :
               [position |-> position[e], velocity |-> velocity[e]]
                   = integrate(arg.position[e], arg.velocity[e],
                               net_acceleration(arg.lists[e], arg.position))

C10_Witness ==
    /\ pc = "FixedUpdate"
    /\ ticks = 1
    /\ \E e \in Entity :
           /\ arg.order[1] \in Range(Tail(arg.lists[e]))
           /\ position[arg.order[1]] # arg.position[arg.order[1]]
           /\ net_acceleration(arg.lists[e], arg.position)
                  # net_acceleration(arg.lists[e], position)

(***************************************************************************)
(* apply_acceleration over several ticks: the first tick with any          *)
(* acceleration, the later ones with none (the index is empty, so every    *)
(* list holds the particle alone).                                         *)
(***************************************************************************)
(* FRICTION_HALF_TIME / dt: the number of ticks in one half time *)
HalfLifeTicks ==
    CHOOSE n \in 1 .. 16 : FromInt(n) = DivF(FRICTION_HALF_TIME, delta_seconds)

VelocitySamples ==
    {VecZero, Vec2(One, Zero), Vec2(FromInt(0 - 3), DivF(FromInt(16), FromInt(10)))}

InitIntegrate ==
    /\ position = [e \in Entity |-> Vec2(FromInt(10 * e), FromInt(0 - 7))]
    /\ velocity \in [Entity -> VelocitySamples]
    /\ ty = [e \in Entity |-> 0]
    /\ translation = position
    /\ matrix = MatrixHalf
    /\ tree = <<>>
    /\ list_of_nearest_entities = [i \in 1 .. NumParticles |-> <<i>>]
    /\ \E a \in [Entity -> AccelerationSamples] :
           accelerations = [i \in 1 .. NumParticles |-> <<i, a[i]>>]
    /\ pc = "apply_acceleration"
    /\ ticks = 0
    /\ arg = [velocity |-> velocity,
              acceleration |-> [e \in Entity |-> accelerations[e][2]]]
    /\ ret = <<>>

NextIntegrate ==
    \/ (ticks < HalfLifeTicks /\ get_particles)
    \/ compute_acceleration
    \/ apply_acceleration

SpecIntegrate == InitIntegrate /\ [][NextIntegrate]_vars

(* 2^-20 *)
HalvingTolerance == RoundF32(1, 0 - 20)

(* |length(v) - length(v0) / 2| <= 2^-20 * length(v0) *)
NearHalf(v, v0) ==
    LeF(AbsF(SubF(VecLength(v), MulF(VecLength(v0), Half))),
        MulF(VecLength(v0), HalvingTolerance))

(***************************************************************************)
(* C9 as stated.  A particle with no acceleration has exactly half its     *)
(* initial speed after FRICTION_HALF_TIME / dt ticks.                      *)
(***************************************************************************)
C9_ExactlyHalved ==
    (pc = "FixedUpdate" /\ ticks = HalfLifeTicks) =>
        \A e \in Entity :
            arg.acceleration[e] = VecZero =>
                VecLength(velocity[e]) = MulF(VecLength(arg.velocity[e]), Half)

(***************************************************************************)
(* C9.  Every tick sets velocity to velocity * friction + acceleration *   *)
(* dt with friction = 0.5^(dt / FRICTION_HALF_TIME), the same factor on    *)
(* every tick, and then position to position + velocity * dt with the      *)
(* velocity just updated; a particle with no acceleration has about half   *)
(* its initial speed (within one part in 2^20) after 4 ticks.              *)
(***************************************************************************)
C9_Integration ==
    /\ [][apply_acceleration =>
             \A i \in 1 .. Len(accelerations) :
                 LET e == accelerations[i][1]
                     a == accelerations[i][2]
                 IN  /\ velocity'[e] = VecAdd(VecMul(velocity[e], friction),
                                              VecMul(a, delta_seconds))
                     /\ position'[e] = VecAdd(position[e],
                                              VecMul(velocity'[e], delta_seconds))
                     /\ a = VecZero => velocity'[e] = VecMul(velocity[e], friction)]_vars
    /\ [](/\ friction = Powf(Half, DivF(delta_seconds, FRICTION_HALF_TIME))
          /\ HalfLifeTicks = 4
          /\ (pc = "FixedUpdate" /\ ticks = HalfLifeTicks) =>
                 \A e \in Entity :
                     arg.acceleration[e] = VecZero => NearHalf(velocity[e], arg.velocity[e]))

C9_Witness ==
    /\ pc = "FixedUpdate"
    /\ ticks = HalfLifeTicks
    /\ \E e \in Entity :
           /\ arg.acceleration[e] = VecZero
           /\ arg.velocity[e] = Vec2(One, Zero)
           /\ velocity[e] # VecMul(arg.velocity[e], Half)
           /\ NearHalf(velocity[e], arg.velocity[e])
====
